---- MODULE Spec2Model ----
(***************************************************************************)
(* Model of visualisation_utils.py: the helper functions that pick a       *)
(* spectral curve, an RGB composite or a class map out of a tile           *)
(* dictionary and hand it to matplotlib, and the seconds formatter.        *)
(*                                                                         *)
(* The functions share no state of their own, so a behaviour is the module *)
(* being imported (Init) followed by one call; an action is one function,  *)
(* executed whole, its arguments drawn from bounded families.  `call`      *)
(* records the function and its arguments, `out` what the call did: the    *)
(* exception it raised, what it printed and what it handed to matplotlib.  *)
(*                                                                         *)
(* Arithmetic on floats (np.linspace, Normalize, raster/3000) is modelled  *)
(* exactly, as rationals [num, den] or as integer floor division.          *)
(***************************************************************************)
EXTENDS Integers, Sequences, FiniteSets, TLC

VARIABLES call, out

vars == <<call, out>>

(***************************************************************************)
(* Bounds of the input families.                                           *)
(***************************************************************************)
MaxDays == 2            \* sec_to_hms is called with 0 .. MaxDays days - 1 s
MaxRank == 5            \* imagery arrays of rank 1 .. MaxRank
MaxTiles == 2           \* tiles per array (first axis)
MaxDim == 2             \* size of the inner axes (group, height, width)
MaxChannels == 3        \* size of the last axis for the spectral curve
MaxSeed == 1            \* imagery contents: arange(size) + seed
MaxLabel == 11          \* largest label a reference array starts from
LabelsBelow == 2        \* labels below zero: -LabelsBelow .. -1
MaxPixels == 3          \* pixels of a class raster given to show_img_ref

(***************************************************************************)
(* Module constants (the last assignment of each name wins).               *)
(***************************************************************************)
COLOR_LIST == <<"white", "blue", "green", "olive", "red",
                "yellow", "grey", "cyan", "orange", "black">>

CLASS_NAMES == <<"No Data", "Water", "Trees", "Meadows",
                 "Self-Blocking Bricks", "Bare Soil", "Asphalt", "Bitumen",
                 "Tiles", "Shadows">>

\* [25, 15, 5]: the bands of the RGB composite, 0-based as in the source.
RGB_BANDS == <<25, 15, 5>>

WavelengthStart == 404
WavelengthStop == 997

\* _image_show divides by 3000; the augment functions multiply by 20000.
ImageShowDivisor == 3000
RgbGain == 20000

(***************************************************************************)
(* Python / numpy helpers.                                                 *)
(***************************************************************************)
Range(s) == {s[i] : i \in DOMAIN s}

SeqMax(s) == CHOOSE v \in Range(s) : \A w \in Range(s) : w <= v

\* Python sequence indexing: i in -n .. n-1 is accepted, negative i counts
\* from the end.  The result is the 0-based position.
InRange(i, n) == (0 - n) <= i /\ i < n
PyIndex(i, n) == IF i < 0 THEN i + n ELSE i

\* An array of the input family is np.arange(size).reshape(shape) + seed:
\* the cell at a (0-based, in-range) index tuple holds its row-major flat
\* position plus seed, so any two cells of one array differ.
RECURSIVE Flat(_, _)
Flat(shape, idx) ==
    IF Len(idx) = 0 THEN 0
    ELSE Flat(SubSeq(shape, 1, Len(shape) - 1), SubSeq(idx, 1, Len(idx) - 1))
             * shape[Len(idx)] + idx[Len(idx)]

Cell(a, idx) == a.seed + Flat(a.shape, idx)

Rank(a) == Len(a.shape)

(***************************************************************************)
(* sec_to_hms                                                              *)
(***************************************************************************)
\* A gmtime that counts hours from the epoch instead of within the day.
GmTimeAbsoluteHours(sec) ==
    [tm_hour |-> sec \div 3600,
     tm_min  |-> (sec % 3600) \div 60,
     tm_sec  |-> sec % 60]

\* time.gmtime for sec >= 0: the broken-down UTC time of epoch + sec.
GmTime(sec) ==
    LET rem == sec % 86400
    IN  [tm_hour |-> rem \div 3600,
         tm_min  |-> (rem % 3600) \div 60,
         tm_sec  |-> rem % 60]

Digit == <<"0", "1", "2", "3", "4", "5", "6", "7", "8", "9">>

\* strftime's %H, %M, %S: a decimal number in two digits, zero padded.
TwoDigits(n) == Digit[(n \div 10) + 1] \o Digit[(n % 10) + 1]

StrfTime(tm) ==
    TwoDigits(tm.tm_hour) \o "h, " \o TwoDigits(tm.tm_min) \o "m, "
        \o TwoDigits(tm.tm_sec) \o "s"

sec_to_hms(sec) == StrfTime(GmTime(sec))

Seconds == 0 .. (MaxDays * 86400 - 1)

SecToHms ==
    /\ call.fn = "import"
    /\ \E sec \in Seconds :
         /\ call' = [fn |-> "sec_to_hms", sec |-> sec]
         /\ out' = [exc |-> "none", res |-> sec_to_hms(sec)]

(***************************************************************************)
(* show_spectral_curve                                                     *)
(***************************************************************************)
Labels == (0 - LabelsBelow) .. MaxLabel

\* Shapes of the imagery given to show_spectral_curve: [tiles, inner axes of
\* one size, channels].
InnerAxes(k, d) == [i \in 1 .. k |-> d]

CurveShapes ==
    {<<n>> : n \in 1 .. MaxChannels}
    \cup {<<t>> \o InnerAxes(r - 2, d) \o <<n>> :
            r \in 2 .. MaxRank, t \in 1 .. MaxTiles, d \in 1 .. MaxDim,
            n \in 1 .. MaxChannels}

CurveImagery == [shape : CurveShapes, seed : 0 .. MaxSeed]

\* The reference holds one label per tile (rank 1) or a label vector per
\* tile pixel (rank 4); its first cell holds the label `seed`.
CurveReference ==
    [shape : {<<t>> : t \in 1 .. MaxTiles}
                \cup {<<t, 1, 1, k>> : t \in 1 .. MaxTiles, k \in 1 .. MaxDim},
     seed : Labels]

TileNums == (0 - MaxTiles - 1) .. MaxTiles

\* A rational num/den; np.linspace's float results are kept exact.
Rat(n, d) == [num |-> n, den |-> d]
RatEq(a, b) == a.num * b.den = b.num * a.den

\* np.linspace(start, stop, num), endpoint=True: div = num - 1,
\* step = (stop - start) / div, y = arange(num) * step + start, and for
\* num > 1 the last sample is set to stop.  For num = 1 div is 0 and the
\* one sample is start.
LinspaceStepNoEndpoint(start, stop, num) == Rat(stop - start, num)

LinspaceStep(start, stop, num) ==
    IF num > 1 THEN Rat(stop - start, num - 1) ELSE Rat(0, 1)

Linspace(start, stop, num) ==
    LET step == LinspaceStep(start, stop, num)
    IN  [i \in 1 .. num |->
            IF num > 1 /\ i = num THEN Rat(stop, 1)
            ELSE Rat((i - 1) * step.num + start * step.den, step.den)]

\* Line 57: x = np.linspace(404, 997, imagery.shape[-1])
Wavelengths(imagery) ==
    Linspace(WavelengthStart, WavelengthStop, imagery.shape[Rank(imagery)])

\* Lines 59 and 62: y = imagery[tile_num, 0, 0, :] / imagery[tile_num, 0, :]
\* (tile_num already in range).
CurveIntensities(imagery, tile_num) ==
    LET t == PyIndex(tile_num, imagery.shape[1])
        n == imagery.shape[Rank(imagery)]
    IN  IF Rank(imagery) = 4
        THEN [c \in 1 .. n |-> Cell(imagery, <<t, 0, 0, c - 1>>)]
        ELSE [c \in 1 .. n |-> Cell(imagery, <<t, 0, c - 1>>)]

\* The label read without the shift by one.
CurveLabelNoShift(imagery, reference, tile_num) ==
    LET t == PyIndex(tile_num, reference.shape[1])
    IN  [is_array |-> Rank(imagery) # 4 /\ Rank(reference) > 1,
         val |-> IF Rank(reference) > 1
                 THEN Cell(reference, <<t, 0, 0, 0>>)
                 ELSE Cell(reference, <<t>>)]

\* Lines 60 and 63: lbl = reference[tile_num, 0, 0, :][0] + 1 for rank-4
\* imagery, reference[tile_num] + 1 for rank-3 imagery.  On a rank-4
\* reference the latter is an array (is_array), of which val is cell
\* [0, 0, 0].
CurveLabel(imagery, reference, tile_num) ==
    LET t == PyIndex(tile_num, reference.shape[1])
    IN  IF Rank(imagery) = 4
        THEN [is_array |-> FALSE,
              val |-> Cell(reference, <<t, 0, 0, 0>>) + 1]
        ELSE [is_array |-> Rank(reference) > 1,
              val |-> IF Rank(reference) > 1
                      THEN Cell(reference, <<t, 0, 0, 0>>) + 1
                      ELSE Cell(reference, <<t>>) + 1]

NoLabel == [is_array |-> FALSE, val |-> 0]
NoPlot == [x |-> <<>>, y |-> <<>>, label |-> ""]

\* What one call of show_spectral_curve does.  `bound` is the set of local
\* names assigned so far, `line` the last line executed.
CurveOutcome(exc, line, printed, bound, y, lbl, plot) ==
    [exc |-> exc, line |-> line, printed |-> printed, bound |-> bound,
     y |-> y, lbl |-> lbl, plot |-> plot]

show_spectral_curve(tile_dict, tile_num) ==
    LET imagery == tile_dict.imagery
        reference == tile_dict.reference
        x == Wavelengths(imagery)
        y == CurveIntensities(imagery, tile_num)
        lbl == CurveLabel(imagery, reference, tile_num)
    IN  IF Rank(imagery) = 4 THEN
            IF ~InRange(tile_num, imagery.shape[1])
            THEN CurveOutcome("IndexError", 59, <<>>, {"x"}, <<>>, NoLabel,
                              NoPlot)
            ELSE IF Rank(reference) < 4
                     \/ ~InRange(tile_num, reference.shape[1])
            THEN CurveOutcome("IndexError", 60, <<>>, {"x", "y"}, y, NoLabel,
                              NoPlot)
            ELSE IF ~InRange(lbl.val, Len(CLASS_NAMES))
            THEN CurveOutcome("IndexError", 67, <<>>, {"x", "y", "lbl"}, y,
                              lbl, NoPlot)
            ELSE CurveOutcome("none", 70, <<>>, {"x", "y", "lbl"}, y, lbl,
                   [x |-> x, y |-> y,
                    label |-> CLASS_NAMES[PyIndex(lbl.val, Len(CLASS_NAMES))
                                              + 1]])
        ELSE IF Rank(imagery) = 3 THEN
            IF ~InRange(tile_num, imagery.shape[1])
            THEN CurveOutcome("IndexError", 62, <<>>, {"x"}, <<>>, NoLabel,
                              NoPlot)
            ELSE IF ~InRange(tile_num, reference.shape[1])
            THEN CurveOutcome("IndexError", 63, <<>>, {"x", "y"}, y, NoLabel,
                              NoPlot)
            ELSE IF lbl.is_array
            THEN CurveOutcome("TypeError", 67, <<>>, {"x", "y", "lbl"}, y,
                              lbl, NoPlot)
            ELSE IF ~InRange(lbl.val, Len(CLASS_NAMES))
            THEN CurveOutcome("IndexError", 67, <<>>, {"x", "y", "lbl"}, y,
                              lbl, NoPlot)
            ELSE CurveOutcome("none", 70, <<>>, {"x", "y", "lbl"}, y, lbl,
                   [x |-> x, y |-> y,
                    label |-> CLASS_NAMES[PyIndex(lbl.val, Len(CLASS_NAMES))
                                              + 1]])
        ELSE
            \* line 65 prints and execution falls through to line 67, where
            \* reading the unassigned local y raises.
            CurveOutcome("UnboundLocalError", 67,
                         <<"The input data is in an incompatible shape.">>,
                         {"x"}, <<>>, NoLabel, NoPlot)

ShowSpectralCurve ==
    /\ call.fn = "import"
    /\ \E imagery \in CurveImagery, reference \in CurveReference,
          tile_num \in TileNums :
         /\ call' = [fn |-> "show_spectral_curve",
                     tile_dict |-> [imagery |-> imagery,
                                    reference |-> reference],
                     tile_num |-> tile_num]
         /\ out' = show_spectral_curve(call'.tile_dict, tile_num)

(***************************************************************************)
(* _image_show and _class_show                                             *)
(***************************************************************************)
\* Arrays computed by the functions are explicit: a shape and the value at
\* every index tuple.
Idx2(shape) == {<<i, j>> : i \in 0 .. shape[1] - 1, j \in 0 .. shape[2] - 1}

Idx3(shape) ==
    {<<i, j, k>> : i \in 0 .. shape[1] - 1, j \in 0 .. shape[2] - 1,
                   k \in 0 .. shape[3] - 1}

\* raster * gain, elementwise.
Scaled(raster, gain) ==
    [shape |-> raster.shape,
     data |-> [i \in DOMAIN raster.data |-> raster.data[i] * gain]]

\* Line 26: plt.imshow(raster/3000).
ImageShow(raster) ==
    [shape |-> raster.shape,
     data |-> [i \in DOMAIN raster.data |->
                  Rat(raster.data[i], ImageShowDivisor)]]

\* np.unique(raster), and its largest and smallest value.
Unique(raster) == {raster.data[i] : i \in DOMAIN raster.data}
RasterMax(raster) ==
    CHOOSE m \in Unique(raster) : \A v \in Unique(raster) : v <= m
RasterMin(raster) ==
    CHOOSE m \in Unique(raster) : \A v \in Unique(raster) : m <= v

\* Line 33: N = max(np.unique(raster)).
ColormapN(raster) == RasterMax(raster)

\* ListedColormap(COLOR_LIST, N): the first N entries of the list, the list
\* repeated from its start when N exceeds its length (itertools.cycle).
ListedColormap(colors, N) ==
    [i \in 1 .. N |-> colors[((i - 1) % Len(colors)) + 1]]

\* The 0-based colormap entry imshow draws value v with: Normalize maps
\* vmin..vmax linearly onto 0..1 (everything to 0 when vmin = vmax), the
\* colormap takes entry floor(x * N), and x = 1 takes the last entry N - 1.
\* With N = 0 the lookup table holds no color and the result is -1.
ColorBin(v, vmin, vmax, N) ==
    IF N = 0 THEN 0 - 1
    ELSE IF vmin = vmax THEN 0
    ELSE IF v = vmax THEN N - 1
    ELSE ((v - vmin) * N) \div (vmax - vmin)

NoClassMap == [exc |-> "none", N |-> 0, colors |-> <<>>, drawn |-> <<>>]

\* Lines 33-34.  A negative N makes itertools.islice raise ValueError.
\* `drawn` is the colormap entry of every pixel.
ClassShow(raster) ==
    LET N == ColormapN(raster)
    IN  IF N < 0
        THEN [exc |-> "ValueError", N |-> N, colors |-> <<>>,
              drawn |-> <<>>]
        ELSE [exc |-> "none", N |-> N,
              colors |-> ListedColormap(COLOR_LIST, N),
              drawn |-> [i \in DOMAIN raster.data |->
                            ColorBin(raster.data[i], RasterMin(raster),
                                     RasterMax(raster), N)]]

\* Lines 48-50: for label, color in zip(CLASS_NAMES, COLOR_LIST).
Legend ==
    [i \in 1 .. Len(CLASS_NAMES) |->
        [label |-> CLASS_NAMES[i], color |-> COLOR_LIST[i]]]

(***************************************************************************)
(* show_img_ref                                                            *)
(***************************************************************************)
\* A class raster of one row, [1, p], holding the labels px.
ClassRaster(px) ==
    [shape |-> <<1, Len(px)>>,
     data |-> [i \in Idx2(<<1, Len(px)>>) |-> px[i[2] + 1]]]

\* The hyperspectral image shown beside it: [1, p, 3], arange + seed.
Explicit3(a) ==
    [shape |-> a.shape, data |-> [i \in Idx3(a.shape) |-> Cell(a, i)]]

show_img_ref(hs_img, gt_img) ==
    LET classes == ClassShow(gt_img)
    IN  [exc |-> classes.exc,
         image |-> ImageShow(hs_img),
         classes |-> classes,
         legend |-> IF classes.exc = "none" THEN Legend ELSE <<>>]

ShowImgRef ==
    /\ call.fn = "import"
    /\ \E p \in 1 .. MaxPixels, seed \in 0 .. MaxSeed :
         \E px \in [1 .. p -> Labels] :
            /\ call' = [fn |-> "show_img_ref",
                        hs_img |-> Explicit3([shape |-> <<1, p, 3>>,
                                              seed |-> seed]),
                        gt_img |-> ClassRaster(px)]
            /\ out' = show_img_ref(call'.hs_img, call'.gt_img)

(***************************************************************************)
(* show_augment_spatial and show_augment_spectro_spatial                   *)
(***************************************************************************)
\* Imagery [tiles, channels, height, width] with as many channels as the
\* highest band of the composite (one too few), one more, or 32.
BandCounts == {SeqMax(RGB_BANDS), SeqMax(RGB_BANDS) + 1, 32}

\* The label in the first cell of the reference [tiles, height, width].
GtLabels == {0 - LabelsBelow, 0, MaxLabel}

AugFuncts == {"identity", "hflip"}

\* The pixel of its input an augmentation puts at [h, w]: the identity, or
\* a flip along the width.
AugSource(aug_funct, h, w, W) ==
    IF aug_funct = "hflip" THEN <<h, W - 1 - w>> ELSE <<h, w>>

\* Lines 90 and 120: img_rgb = imagery[tile_num, [25, 15, 5], :, :], or
\* imagery[tile_num, 0, [25, 15, 5], :, :] with the group axis.  `lead` is
\* the index prefix <<tile>> or <<tile, 0>>; the result is [3, H, W].
TakeBands(imagery, lead, bands) ==
    LET H == imagery.shape[Rank(imagery) - 1]
        W == imagery.shape[Rank(imagery)]
    IN  [shape |-> <<Len(bands), H, W>>,
         data |-> [i \in Idx3(<<Len(bands), H, W>>) |->
                      Cell(imagery, lead \o <<bands[i[1] + 1], i[2], i[3]>>)]]

\* a.transpose((2, 1, 0)): the spatial axes swapped.
Transpose210(a) ==
    LET shape == <<a.shape[3], a.shape[2], a.shape[1]>>
    IN  [shape |-> shape,
         data |-> [i \in Idx3(shape) |-> a.data[<<i[3], i[2], i[1]>>]]]

\* a.transpose((1, 2, 0)): axis k of the result is axis axes[k] of a.
Transpose120(a) ==
    LET shape == <<a.shape[2], a.shape[3], a.shape[1]>>
    IN  [shape |-> shape,
         data |-> [i \in Idx3(shape) |-> a.data[<<i[3], i[1], i[2]>>]]]

\* Lines 92 and 122: tile_gt = reference[tile_num, :, :].
TileGt(reference, tile_num) ==
    LET t == PyIndex(tile_num, reference.shape[1])
        shape == <<reference.shape[2], reference.shape[3]>>
    IN  [shape |-> shape,
         data |-> [i \in Idx2(shape) |-> Cell(reference, <<t>> \o i)]]

\* Lines 99-104 and 129-134: the tile is augmented whole and the composite
\* taken from the result, img_augmented_np[0, [25, 15, 5], :, :]
\* .transpose(1, 2, 0).
AugmentedRgb(imagery, lead, bands, aug_funct) ==
    LET H == imagery.shape[Rank(imagery) - 1]
        W == imagery.shape[Rank(imagery)]
        picked ==
            [shape |-> <<Len(bands), H, W>>,
             data |-> [i \in Idx3(<<Len(bands), H, W>>) |->
                          Cell(imagery, lead \o <<bands[i[1] + 1]>>
                                   \o AugSource(aug_funct, i[2], i[3], W))]]
    IN  Transpose120(picked)

\* Lines 115 and 146: gt_augmented[0, :, :].
AugmentedGt(tile_gt, aug_funct) ==
    [shape |-> tile_gt.shape,
     data |-> [i \in Idx2(tile_gt.shape) |->
                  tile_gt.data[AugSource(aug_funct, i[1], i[2],
                                         tile_gt.shape[2])]]]

NoArray == [shape |-> <<>>, data |-> <<>>]

\* `printed` is what line 102 or 132 prints, the shape of img_augmented.
AugmentOutcome(exc, line, printed, rgb, shown, aug_shown, cls, aug_cls, lg) ==
    [exc |-> exc, line |-> line, printed |-> printed,
     img_rgb_transposed |-> rgb,
     shown |-> shown, aug_shown |-> aug_shown, classes |-> cls,
     aug_classes |-> aug_cls, legend |-> lg]

\* Both functions, which differ in the index prefix only: <<tile_num>> for
\* show_augment_spatial, <<tile_num, 0>> for show_augment_spectro_spatial.
\* `line` counts in show_augment_spatial (the other function is 30 lines
\* further down).
ShowAugment(tile_dict, tile_num, aug_funct, group) ==
    LET imagery == tile_dict.imagery
        reference == tile_dict.reference
        lead == <<PyIndex(tile_num, imagery.shape[1])>> \o group
        chans == imagery.shape[Len(lead) + 1]
        rgb == Transpose120(TakeBands(imagery, lead, RGB_BANDS))
        tile_gt == TileGt(reference, tile_num)
        aug_gt == AugmentedGt(tile_gt, aug_funct)
        aug_rgb == AugmentedRgb(imagery, lead, RGB_BANDS, aug_funct)
        aug_shape == [i \in 1 .. Len(lead) |-> 1]
                         \o SubSeq(imagery.shape, Len(lead) + 1, Rank(imagery))
    IN  IF \/ ~InRange(tile_num, imagery.shape[1])
           \/ \E k \in DOMAIN RGB_BANDS : ~InRange(RGB_BANDS[k], chans)
        THEN AugmentOutcome("IndexError", 90, <<>>, NoArray, NoArray, NoArray,
                            NoClassMap, NoClassMap, <<>>)
        ELSE IF ~InRange(tile_num, reference.shape[1])
        THEN AugmentOutcome("IndexError", 92, <<>>, rgb, NoArray, NoArray,
                            NoClassMap, NoClassMap, <<>>)
        ELSE IF ClassShow(tile_gt).exc # "none"
        THEN AugmentOutcome(ClassShow(tile_gt).exc, 109, <<aug_shape>>, rgb,
                            ImageShow(Scaled(rgb, RgbGain)),
                            ImageShow(Scaled(aug_rgb, RgbGain)),
                            NoClassMap, NoClassMap, <<>>)
        ELSE AugmentOutcome(ClassShow(aug_gt).exc, 115, <<aug_shape>>, rgb,
                            ImageShow(Scaled(rgb, RgbGain)),
                            ImageShow(Scaled(aug_rgb, RgbGain)),
                            ClassShow(tile_gt), ClassShow(aug_gt), Legend)

show_augment_spatial(tile_dict, tile_num, aug_funct) ==
    ShowAugment(tile_dict, tile_num, aug_funct, <<>>)

show_augment_spectro_spatial(tile_dict, tile_num, aug_funct) ==
    ShowAugment(tile_dict, tile_num, aug_funct, <<0>>)

ShowAugmentSpatial ==
    /\ call.fn = "import"
    /\ \E t \in 1 .. MaxTiles, c \in BandCounts, h \in 1 .. MaxDim,
          w \in 1 .. MaxDim, seed \in 0 .. MaxSeed, rt \in 1 .. MaxTiles,
          label \in GtLabels, tile_num \in TileNums, aug_funct \in AugFuncts :
         /\ call' = [fn |-> "show_augment_spatial",
                     tile_dict |->
                        [imagery |-> [shape |-> <<t, c, h, w>>,
                                      seed |-> seed],
                         reference |-> [shape |-> <<rt, h, w>>,
                                        seed |-> label]],
                     tile_num |-> tile_num,
                     aug_funct |-> aug_funct]
         /\ out' = show_augment_spatial(call'.tile_dict, tile_num, aug_funct)

ShowAugmentSpectroSpatial ==
    /\ call.fn = "import"
    /\ \E t \in 1 .. MaxTiles, g \in 1 .. MaxDim, c \in BandCounts,
          h \in 1 .. MaxDim, w \in 1 .. MaxDim, seed \in 0 .. MaxSeed,
          rt \in 1 .. MaxTiles, label \in GtLabels, tile_num \in TileNums,
          aug_funct \in AugFuncts :
         /\ call' = [fn |-> "show_augment_spectro_spatial",
                     tile_dict |->
                        [imagery |-> [shape |-> <<t, g, c, h, w>>,
                                      seed |-> seed],
                         reference |-> [shape |-> <<rt, h, w>>,
                                        seed |-> label]],
                     tile_num |-> tile_num,
                     aug_funct |-> aug_funct]
         /\ out' = show_augment_spectro_spatial(call'.tile_dict, tile_num,
                                                aug_funct)

(***************************************************************************)
(* The module after import.                                                *)
(***************************************************************************)
Init ==
    /\ call = [fn |-> "import"]
    /\ out = [exc |-> "none"]

Next ==
    \/ SecToHms
    \/ ShowSpectralCurve
    \/ ShowImgRef
    \/ ShowAugmentSpatial
    \/ ShowAugmentSpectroSpatial

Spec == Init /\ [][Next]_vars

(***************************************************************************)
(* Properties                                                              *)
(***************************************************************************)
IsCurveCall == call.fn = "show_spectral_curve"
IsAugmentCall ==
    call.fn \in {"show_augment_spatial", "show_augment_spectro_spatial"}

\* C1: an imagery array whose rank is neither 3 nor 4 makes
\* show_spectral_curve fail with UnsupportedShapeError: nothing is printed
\* and the plotting line is not reached with y and lbl unassigned.
C1_UnsupportedRankRaises ==
    (IsCurveCall /\ Rank(call.tile_dict.imagery) \notin {3, 4})
        => /\ out.exc = "UnsupportedShapeError"
           /\ out.printed = <<>>
           /\ out.line < 67

\* C2: a raster with maximum label m in 0..9 gets a colormap of exactly
\* m + 1 colors, the leading m + 1 entries of COLOR_LIST.
C2_PaletteHasMaxPlusOne ==
    (call.fn = "show_img_ref" /\ RasterMax(call.gt_img) \in 0 .. 9)
        => /\ out.classes.N = RasterMax(call.gt_img) + 1
           /\ out.classes.colors
                = SubSeq(COLOR_LIST, 1, RasterMax(call.gt_img) + 1)

\* C3: sec_to_hms(s) is "<HH>h, <MM>m, <SS>s" in two zero-padded digits
\* each, SS = s mod 60, MM = (s div 60) mod 60, HH = (s div 3600) mod 24:
\* the hour count below one day, wrapped modulo 24 from one day on.
Padded(n) == IF n < 10 THEN "0" \o ToString(n) ELSE ToString(n)

C3_DurationFormat ==
    call.fn = "sec_to_hms"
        => /\ out.res = Padded((call.sec \div 3600) % 24) \o "h, "
                          \o Padded((call.sec \div 60) % 60) \o "m, "
                          \o Padded(call.sec % 60) \o "s"
           /\ call.sec = 0 => out.res = "00h, 00m, 00s"
           /\ call.sec = 3661 => out.res = "01h, 01m, 01s"
           /\ call.sec = 86399 => out.res = "23h, 59m, 59s"
           /\ call.sec = 86400 => out.res = "00h, 00m, 00s"

C3_Witness ==
    /\ call.fn = "sec_to_hms"
    /\ call.sec = 86400 + 3661
    /\ out.res = "01h, 01m, 01s"

\* C4: for a tile index valid in both arrays show_spectral_curve takes the
\* intensities imagery[tile, 0, 0, :] and the label
\* reference[tile, 0, 0, 0] + 1 for rank-4 imagery, imagery[tile, 0, :] and
\* reference[tile] + 1 for rank-3 imagery: the label is that of the same
\* tile, shifted by exactly one.  Cells are written out as arange + seed.
C4_CurveDispatch ==
    LET im == call.tile_dict.imagery
        ref == call.tile_dict.reference
        t == (call.tile_num + im.shape[1]) % im.shape[1]
        rt == (call.tile_num + ref.shape[1]) % ref.shape[1]
        n == im.shape[Rank(im)]
    IN  (/\ IsCurveCall
         /\ InRange(call.tile_num, im.shape[1])
         /\ InRange(call.tile_num, ref.shape[1]))
        => /\ (Rank(im) = 4 /\ Rank(ref) = 4)
                => /\ {"y", "lbl"} \subseteq out.bound
                   /\ Len(out.y) = n
                   /\ \A c \in 0 .. n - 1 :
                        out.y[c + 1]
                          = im.seed + t * im.shape[2] * im.shape[3] * n + c
                   /\ ~out.lbl.is_array
                   /\ out.lbl.val
                        = ref.seed + rt * ref.shape[4] + 1
           /\ (Rank(im) = 3 /\ Rank(ref) = 1)
                => /\ {"y", "lbl"} \subseteq out.bound
                   /\ Len(out.y) = n
                   /\ \A c \in 0 .. n - 1 :
                        out.y[c + 1] = im.seed + t * im.shape[2] * n + c
                   /\ ~out.lbl.is_array
                   /\ out.lbl.val = ref.seed + rt + 1
           /\ out.exc = "none" => out.plot.y = out.y

C4_Witness ==
    /\ IsCurveCall
    /\ Rank(call.tile_dict.imagery) = 4
    /\ call.tile_dict.imagery.shape = <<2, 2, 2, 3>>
    /\ call.tile_dict.imagery.seed = 0
    /\ call.tile_dict.reference.shape = <<2, 1, 1, 2>>
    /\ call.tile_dict.reference.seed = 3
    /\ call.tile_num = 1
    /\ out.exc = "none"
    /\ out.plot.y = <<12, 13, 14>>
    /\ out.lbl.val = 6
    /\ out.plot.label = "Asphalt"

RatSub(a, b) == Rat(a.num * b.den - b.num * a.den, a.den * b.den)

EvenlySpaced(x) ==
    \A i \in 1 .. Len(x) - 2 :
        RatEq(RatSub(x[i + 1], x[i]), RatSub(x[i + 2], x[i + 1]))

CurvePlotted3 ==
    IsCurveCall /\ Rank(call.tile_dict.imagery) = 3 /\ out.exc = "none"

\* C5 as stated: for rank-3 imagery with n >= 1 channels the wavelength axis
\* has length n, is evenly spaced, starts at 404 and ends at 997.
C5_AxisEndsAt997 ==
    CurvePlotted3
        => /\ Len(out.plot.x) = call.tile_dict.imagery.shape[3]
           /\ EvenlySpaced(out.plot.x)
           /\ RatEq(out.plot.x[1], Rat(404, 1))
           /\ RatEq(out.plot.x[Len(out.plot.x)], Rat(997, 1))

\* C5 amended: for rank-3 imagery with n >= 1 channels the wavelength axis
\* has length n, is evenly spaced and starts at 404; it ends at 997 when
\* n >= 2, and for n = 1 its one sample is 404.
C5_AxisAmended ==
    CurvePlotted3
        => /\ Len(out.plot.x) = call.tile_dict.imagery.shape[3]
           /\ EvenlySpaced(out.plot.x)
           /\ RatEq(out.plot.x[1], Rat(404, 1))
           /\ Len(out.plot.x) >= 2
                => RatEq(out.plot.x[Len(out.plot.x)], Rat(997, 1))

C5_Witness ==
    /\ CurvePlotted3
    /\ Len(out.plot.x) = 3
    /\ RatEq(out.plot.x[2], Rat(1401, 2))
    /\ RatEq(out.plot.x[3], Rat(997, 1))

\* C6: the composite has shape [H, W, 3] and element [h, w, k] is
\* imagery[tile, b[k], h, w], or imagery[tile, 0, b[k], h, w] for the
\* spectro-spatial layout, b = [25, 15, 5] in that order, unscaled.  Cells
\* are written out as arange + seed.
C6_RgbComposite ==
    LET im == call.tile_dict.imagery
        t == (call.tile_num + im.shape[1]) % im.shape[1]
        H == im.shape[Rank(im) - 1]
        W == im.shape[Rank(im)]
        C == im.shape[Rank(im) - 2]
        b == <<25, 15, 5>>
        tile == IF call.fn = "show_augment_spatial" THEN t
                ELSE t * im.shape[2]
    IN  (IsAugmentCall /\ out.line > 90)
        => /\ out.img_rgb_transposed.shape = <<H, W, 3>>
           /\ DOMAIN out.img_rgb_transposed.data
                = (0 .. H - 1) \X (0 .. W - 1) \X (0 .. 2)
           /\ \A h \in 0 .. H - 1, w \in 0 .. W - 1, k \in 0 .. 2 :
                out.img_rgb_transposed.data[<<h, w, k>>]
                  = im.seed + ((tile * C + b[k + 1]) * H + h) * W + w

C6_Witness ==
    /\ call.fn = "show_augment_spectro_spatial"
    /\ call.tile_dict.imagery.shape = <<2, 2, 26, 1, 2>>
    /\ call.tile_dict.imagery.seed = 0
    /\ call.tile_num = 1
    /\ out.exc = "none"
    /\ out.img_rgb_transposed.shape = <<1, 2, 3>>
    /\ out.img_rgb_transposed.data[<<0, 1, 0>>] = 155
    /\ out.img_rgb_transposed.data[<<0, 1, 2>>] = 115

\* C7: a raster whose maximum label is 10 or more makes the colormap
\* construction fail with PaletteExhaustedError; no colormap is built.
C7_PaletteExhaustedRaises ==
    (call.fn = "show_img_ref" /\ RasterMax(call.gt_img) >= Len(COLOR_LIST))
        => /\ out.exc = "PaletteExhaustedError"
           /\ out.classes.colors = <<>>

\* C8: a tile dictionary whose imagery and reference differ in tile count
\* makes the functions that read both fail with ShapeMismatchError, for
\* every tile index.
C8_TileCountMismatchRaises ==
    (/\ IsCurveCall \/ IsAugmentCall
     /\ call.tile_dict.imagery.shape[1] # call.tile_dict.reference.shape[1])
        => out.exc = "ShapeMismatchError"

\* C9: in a raster with labels in 0..9 every pixel of label v is drawn with
\* COLOR_LIST[v], the color the legend pairs with CLASS_NAMES[v].
C9_LabelDrawnWithItsColor ==
    (call.fn = "show_img_ref" /\ Unique(call.gt_img) \subseteq 0 .. 9)
        => \A i \in DOMAIN call.gt_img.data :
             /\ out.classes.drawn[i] >= 0
             /\ out.classes.colors[out.classes.drawn[i] + 1]
                  = out.legend[call.gt_img.data[i] + 1].color

\* C10: the shifted label lbl = raw label + 1 is always an index 1..9 into
\* CLASS_NAMES: never out of range, never 0 and never negative.
C10_ShiftedLabelInPalette ==
    (IsCurveCall /\ "lbl" \in out.bound /\ ~out.lbl.is_array)
        => out.lbl.val \in 1 .. (Len(CLASS_NAMES) - 1)

====
